---- MODULE Spec2Model ----
(***************************************************************************)
(* Model of pkg/nuclide-rpc/lib/main.js: the definitions cache, the proxy  *)
(* factory cache, and the three exported operations getDefinitions,        *)
(* getProxy and createProxyFactory.                                        *)
(*                                                                         *)
(* Every exported function is synchronous (no await, no callback), so one  *)
(* call is one atomic step of the single JavaScript thread.  The steps a   *)
(* call performs internally are recorded, in order, in lastCall.steps;      *)
(* lastCall holds the call's outcome until the caller has taken it.        *)
(*                                                                         *)
(* Objects carry an id <<kind, path, serial>> (the serial-th object of that *)
(* kind made for that path): two objects are identical (===) exactly when  *)
(* their ids are equal.                                                    *)
(*                                                                         *)
(* The file system is outside the program: each call is given what the     *)
(* file its path names is to the call (disk): readable with some content,  *)
(* there for the resolution and not readable, or not there at all.  Node   *)
(* remembers successful resolutions, for good in Module._pathCache and,    *)
(* while a module is loading, in its stat cache.  Both belong to the       *)
(* process, not to main.js: the requests this module's calls have resolved *)
(* are state (resolvedHere), what the rest of the process has put into the *)
(* two caches is an input of each call (nodeCached).                       *)
(***************************************************************************)
EXTENDS Integers, Sequences, FiniteSets, TLC

\* ---------------------------------------------------------------- bounds
\* Number of calls of the exported functions in one run.
MaxCalls == 3

\* ------------------------------------------------------------ input sets
\* A path is a sequence of segments; the last segment "js" is the extension.
\* <<"a">> and <<"a","js">> are two spellings of the same file.
Paths == {<<"a">>, <<"a", "js">>, <<"b", "js">>}
ServiceNames == {"S1", "S2"}
\* One RpcContext per connection.
Contexts == {"ctx1", "ctx2"}
\* What a file is to a call: it holds one of two well-formed sources or a
\* malformed one; it is there when the path is resolved and fs.readFileSync
\* cannot read it (no permission, a directory, too large, removed by another
\* process after the resolution); or there is no such file.
GoodContents == {"v1", "v2"}
FileStates == GoodContents \cup {"bad", "unreadable", "absent"}
\* Where the synthesis chain of createProxyFactory throws, if anywhere.
Faults == {"none", "generate", "load", "inject"}

NoObj == [id |-> <<>>]
NoCall == [op |-> "none"]

VARIABLES
  definitionsCache,  \* Map<string, Definitions>, as a function on its keys
  proxiesCache,      \* Map<string, ProxyFactory>, as a function on its keys
  parsed,            \* per path, Definitions objects the parser has returned
  made,              \* per path, factories createProxyFactory has returned
  applied,           \* number of factory applications made by getProxy
  calls,             \* number of calls made so far
  lastCall,          \* the most recent call: arguments, steps, outcome
  firstDefs,         \* history: per path, the Definitions cached first
  firstFactory,      \* history: per path, the factory cached first
  getProxyOk,        \* history: number of getProxy calls that returned
  proxySets,         \* history: per path, number of proxiesCache.set calls
  threw,             \* history: <<path, stage>> of the failures seen so far
  compiledWith,      \* history: the lookup paths modules had when _compile began
  resolvedHere,      \* the definitionPaths the calls made so far have resolved:
                     \* Module._pathCache holds them from then on
  obs                \* history: the objects handed out for each path, and to whom

vars == <<definitionsCache, proxiesCache, parsed, made, applied, calls, lastCall,
          firstDefs, firstFactory, getProxyOk, proxySets, threw, compiledWith,
          resolvedHere, obs>>

\* ------------------------------------------------------------- utilities
Count(s, x) == Cardinality({i \in DOMAIN s : s[i] = x})
Has(s, x) == \E i \in DOMAIN s : s[i] = x
Put(map, k, v) == [q \in DOMAIN map \cup {k} |-> IF q = k THEN v ELSE map[q]]

\* The heap a call works on: both caches, the allocation counters, what Node
\* remembers of earlier resolutions, and the log of the steps the call has
\* taken.  nodeCached: Node can answer the resolution of the call's path from
\* what the rest of the process left in its caches, Module._pathCache (another
\* module has resolved the same request) or the stat cache (the file was seen
\* earlier in the module load that is in progress).
Heap(nodeCached) ==
  [dc |-> definitionsCache, pc |-> proxiesCache, parsed |-> parsed,
   made |-> made, applied |-> applied, compiled |-> compiledWith,
   resolved |-> resolvedHere, nodeCached |-> nodeCached, steps |-> <<>>]
Step(st, name) == [st EXCEPT !.steps = Append(@, name)]
Throw(st, err) == [st |-> st, ok |-> FALSE, val |-> NoObj, error |-> err]
Return(st, v) == [st |-> st, ok |-> TRUE, val |-> v, error |-> "none"]

\* ------------------------------------------------- external collaborators
\* Module._resolveFilename: an exact file name resolves to itself, a name
\* without extension resolves to the same name with ".js".
resolveTarget(definitionPath) ==
  IF definitionPath[Len(definitionPath)] = "js"
    THEN definitionPath
    ELSE Append(definitionPath, "js")

\* resolvePath (main.js 136-138): Module._resolveFilename answers from
\* Module._pathCache when this request has resolved before, in a call of this
\* module or elsewhere in the process, and from the stat cache when that holds
\* the file; otherwise it looks at the disk and throws when no such file
\* exists.
resolvePath(st, definitionPath, disk) ==
  [ok |-> \/ definitionPath \in st.resolved
          \/ st.nodeCached
          \/ disk # "absent",
   val |-> resolveTarget(definitionPath)]

\* parseServiceDefinition(fileName, source): throws on malformed source,
\* otherwise returns a new Definitions object built from that source.
parseServiceDefinition(fileName, source, id) ==
  IF source = "bad"
    THEN [ok |-> FALSE, val |-> NoObj]
    ELSE [ok |-> TRUE, val |-> [id |-> id, file |-> fileName, content |-> source]]

\* generateProxy(serviceName, preserveFunctionNames, defs): the source text.
generateProxy(serviceName, preserveFunctionNames, defs) ==
  [serviceName |-> serviceName, preserve |-> preserveFunctionNames, defs |-> defs.id]

\* nuclideUri.parsePath(definitionPath).name + 'Proxy.js'
proxyFilename(definitionPath) == definitionPath[1] \o "Proxy.js"

\* ------------------------------------------------------------ main.js
\* loadDefinitions (main.js 80-83): resolve, read, parse.  fs.readFileSync
\* throws when the file that resolved is not there or cannot be read.
loadDefinitions(st, definitionPath, disk) ==
  LET r == resolvePath(st, definitionPath, disk)
      s1 == Step(st, "resolve")
  IN IF ~r.ok THEN Throw(s1, "resolve")
     ELSE LET s2 == Step([s1 EXCEPT !.resolved = @ \cup {definitionPath}], "read")
          IN IF disk \in {"absent", "unreadable"} THEN Throw(s2, "read")
             ELSE LET s3 == Step(s2, "parse")
                      id == <<"defs", definitionPath, s3.parsed[definitionPath] + 1>>
                      p == parseServiceDefinition(r.val, disk, id)
                  IN IF ~p.ok THEN Throw(s3, "parse")
                     ELSE Return([s3 EXCEPT !.parsed[definitionPath] = @ + 1], p.val)

\* Variant of getDefinitions without the has() test: loads on every call.
getDefinitions_NoHasCheck(st, definitionPath, disk) ==
  LET r == loadDefinitions(st, definitionPath, disk) IN
  IF ~r.ok THEN r
  ELSE LET s1 == Step([r.st EXCEPT !.dc = Put(@, definitionPath, r.val)],
                      "setDefinitions")
       IN Return(s1, s1.dc[definitionPath])

\* Variant of getDefinitions that remembers a failed load under the path.
getDefinitions_NegativeEntry(st, definitionPath, disk) ==
  IF definitionPath \notin DOMAIN st.dc
    THEN LET r == loadDefinitions(st, definitionPath, disk) IN
         IF ~r.ok THEN Throw([r.st EXCEPT !.dc = Put(@, definitionPath, NoObj)], r.error)
         ELSE LET s1 == Step([r.st EXCEPT !.dc = Put(@, definitionPath, r.val)],
                             "setDefinitions")
              IN Return(s1, s1.dc[definitionPath])
    ELSE Return(st, st.dc[definitionPath])

\* Variant of getDefinitions that loads again when the file no longer holds
\* the source the cached Definitions were parsed from.
getDefinitions_Revalidate(st, definitionPath, disk) ==
  IF definitionPath \notin DOMAIN st.dc \/ st.dc[definitionPath].content # disk
    THEN LET r == loadDefinitions(st, definitionPath, disk) IN
         IF ~r.ok THEN r
         ELSE LET s1 == Step([r.st EXCEPT !.dc = Put(@, definitionPath, r.val)],
                             "setDefinitions")
              IN Return(s1, s1.dc[definitionPath])
    ELSE Return(st, st.dc[definitionPath])

\* Variant of getDefinitions that stores the Definitions under the resolved
\* file name as well as under the path it was given.
getDefinitions_AlsoResolvedKey(st, definitionPath, disk) ==
  IF definitionPath \notin DOMAIN st.dc
    THEN LET r == loadDefinitions(st, definitionPath, disk) IN
         IF ~r.ok THEN r
         ELSE LET s1 == Step([r.st EXCEPT !.dc =
                                Put(Put(@, resolveTarget(definitionPath), r.val),
                                    definitionPath, r.val)],
                             "setDefinitions")
              IN Return(s1, s1.dc[definitionPath])
    ELSE Return(st, st.dc[definitionPath])

\* Variant of getDefinitions that returns what it loaded without storing it.
getDefinitions_NoStore(st, definitionPath, disk) ==
  IF definitionPath \notin DOMAIN st.dc
    THEN loadDefinitions(st, definitionPath, disk)
    ELSE Return(st, st.dc[definitionPath])

\* getDefinitions (main.js 71-78)
getDefinitions(st, definitionPath, disk) ==
  IF definitionPath \notin DOMAIN st.dc
    THEN LET r == loadDefinitions(st, definitionPath, disk) IN
         IF ~r.ok THEN r
         ELSE LET s1 == Step([r.st EXCEPT !.dc = Put(@, definitionPath, r.val)],
                             "setDefinitions")
              IN Return(s1, s1.dc[definitionPath])
    ELSE Return(st, st.dc[definitionPath])

\* new Module(): the constructor leaves the lookup paths undefined.
UnsetPaths == <<"undefined">>
newModule(id) ==
  [id |-> id, filename |-> "", paths |-> UnsetPaths, code |-> NoObj, injected |-> 0]

\* Variant of loadCodeAsModule that compiles without emptying the lookup paths.
loadCodeAsModule_KeepPaths(st, code, filename, id, fault) ==
  LET m0 == newModule(id)
      m1 == [m0 EXCEPT !.filename = filename]
      s1 == Step([st EXCEPT !.compiled = @ \cup {m1.paths}], "load")
  IN IF fault = "load" THEN Throw(s1, "load")
     ELSE Return(s1, [m1 EXCEPT !.code = code])

\* loadCodeAsModule (main.js 121-128): a new Module, its filename set, its
\* lookup paths emptied, then _compile runs the code, which may throw.
loadCodeAsModule(st, code, filename, id, fault) ==
  LET m0 == newModule(id)
      m1 == [m0 EXCEPT !.filename = filename]
      m2 == [m1 EXCEPT !.paths = <<>>]
      s1 == Step([st EXCEPT !.compiled = @ \cup {m2.paths}], "load")
  IN IF fault = "load" THEN Throw(s1, "load")
     ELSE Return(s1, [m2 EXCEPT !.code = code])

\* Variant of createProxyFactory that loads the definitions itself instead of
\* going through getDefinitions.
createProxyFactory_OwnLoad(st, serviceName, preserveFunctionNames, definitionPath, disk, fault) ==
  LET d == loadDefinitions(st, definitionPath, disk) IN
  IF ~d.ok THEN d
  ELSE LET s1 == Step(d.st, "generate") IN
       IF fault = "generate" THEN Throw(s1, "generate")
       ELSE LET code == generateProxy(serviceName, preserveFunctionNames, d.val)
                id == <<"factory", definitionPath, s1.made[definitionPath] + 1>>
                m == loadCodeAsModule(s1, code, proxyFilename(definitionPath), id, fault)
            IN IF ~m.ok THEN m
               ELSE LET s2 == Step(m.st, "inject") IN
                    IF fault = "inject" THEN Throw(s2, "inject")
                    ELSE Return([s2 EXCEPT !.made[definitionPath] = @ + 1],
                                [m.val EXCEPT !.injected = @ + 1])

\* Variant of createProxyFactory that returns the module's exports without
\* injecting the dependencies.
createProxyFactory_NoInject(st, serviceName, preserveFunctionNames, definitionPath, disk, fault) ==
  LET d == getDefinitions(st, definitionPath, disk) IN
  IF ~d.ok THEN d
  ELSE LET s1 == Step(d.st, "generate") IN
       IF fault = "generate" THEN Throw(s1, "generate")
       ELSE LET code == generateProxy(serviceName, preserveFunctionNames, d.val)
                id == <<"factory", definitionPath, s1.made[definitionPath] + 1>>
                m == loadCodeAsModule(s1, code, proxyFilename(definitionPath), id, fault)
            IN IF ~m.ok THEN m
               ELSE Return([m.st EXCEPT !.made[definitionPath] = @ + 1], m.val)

\* createProxyFactory (main.js 107-119)
createProxyFactory(st, serviceName, preserveFunctionNames, definitionPath, disk, fault) ==
  LET d == getDefinitions(st, definitionPath, disk) IN
  IF ~d.ok THEN d
  ELSE LET s1 == Step(d.st, "generate") IN
       IF fault = "generate" THEN Throw(s1, "generate")
       ELSE LET code == generateProxy(serviceName, preserveFunctionNames, d.val)
                id == <<"factory", definitionPath, s1.made[definitionPath] + 1>>
                m == loadCodeAsModule(s1, code, proxyFilename(definitionPath), id, fault)
            IN IF ~m.ok THEN m
               ELSE LET s2 == Step(m.st, "inject") IN
                    IF fault = "inject" THEN Throw(s2, "inject")
                    ELSE Return([s2 EXCEPT !.made[definitionPath] = @ + 1],
                                [m.val EXCEPT !.injected = @ + 1])

\* factory(clientObject): a new object bound to the context it was given.
applyFactory(st, factory, clientObject) ==
  Return(Step([st EXCEPT !.applied = @ + 1], "apply"),
         [id |-> <<"proxy", st.applied + 1>>, factory |-> factory.id,
          ctx |-> clientObject])

\* Variant of getProxy that caches the bound proxy's context with the factory
\* and hands later callers an object bound to the first caller's context.
getProxy_SharedBinding(st, serviceName, definitionPath, clientObject, disk, fault) ==
  IF definitionPath \notin DOMAIN st.pc
    THEN LET f == createProxyFactory(st, serviceName, FALSE, definitionPath, disk, fault) IN
         IF ~f.ok THEN f
         ELSE LET s1 == Step([f.st EXCEPT !.pc = Put(@, definitionPath,
                                [f.val EXCEPT !.filename = clientObject])],
                             "setProxy")
              IN applyFactory(s1, s1.pc[definitionPath], clientObject)
    ELSE applyFactory(st, st.pc[definitionPath], st.pc[definitionPath].filename)

\* Variant of getProxy that applies the factory only when it has just been
\* created; on a hit it hands out the object of the latest application.
getProxy_ApplyOnMiss(st, serviceName, definitionPath, clientObject, disk, fault) ==
  IF definitionPath \notin DOMAIN st.pc
    THEN LET f == createProxyFactory(st, serviceName, FALSE, definitionPath, disk, fault) IN
         IF ~f.ok THEN f
         ELSE LET s1 == Step([f.st EXCEPT !.pc = Put(@, definitionPath, f.val)],
                             "setProxy")
              IN applyFactory(s1, s1.pc[definitionPath], clientObject)
    ELSE Return(st, [id |-> <<"proxy", st.applied>>,
                     factory |-> st.pc[definitionPath].id, ctx |-> clientObject])

\* Variant of getProxy that leaves an entry behind when the synthesis throws.
getProxy_FailureEntry(st, serviceName, definitionPath, clientObject, disk, fault) ==
  IF definitionPath \notin DOMAIN st.pc
    THEN LET f == createProxyFactory(st, serviceName, FALSE, definitionPath, disk, fault) IN
         IF ~f.ok THEN Throw([f.st EXCEPT !.pc = Put(@, definitionPath, NoObj)], f.error)
         ELSE LET s1 == Step([f.st EXCEPT !.pc = Put(@, definitionPath, f.val)],
                             "setProxy")
              IN applyFactory(s1, s1.pc[definitionPath], clientObject)
    ELSE applyFactory(st, st.pc[definitionPath], clientObject)

\* Variant of getProxy that stores the loaded module's exports first and
\* injects afterwards.
getProxy_StoreBeforeInject(st, serviceName, definitionPath, clientObject, disk, fault) ==
  IF definitionPath \notin DOMAIN st.pc
    THEN LET f == createProxyFactory(st, serviceName, FALSE, definitionPath, disk,
                                     IF fault = "inject" THEN "none" ELSE fault)
         IN IF ~f.ok THEN f
            ELSE LET s1 == Step([f.st EXCEPT !.pc = Put(@, definitionPath,
                                   [f.val EXCEPT !.injected = 0])],
                                "setProxy")
                 IN IF fault = "inject" THEN Throw(s1, "inject")
                    ELSE LET s2 == [s1 EXCEPT !.pc[definitionPath].injected = 1]
                         IN applyFactory(s2, s2.pc[definitionPath], clientObject)
    ELSE applyFactory(st, st.pc[definitionPath], clientObject)

\* Variant of getProxy whose cache is looked up by service name: a factory
\* made for the same name is reused whatever its path, and a new name makes a
\* new factory for a path that already has one.
getProxy_KeyByName(st, serviceName, definitionPath, clientObject, disk, fault) ==
  LET same == {q \in DOMAIN st.pc : st.pc[q].code.serviceName = serviceName} IN
  IF same = {}
    THEN LET f == createProxyFactory(st, serviceName, FALSE, definitionPath, disk, fault) IN
         IF ~f.ok THEN f
         ELSE LET s1 == Step([f.st EXCEPT !.pc = Put(@, definitionPath, f.val)],
                             "setProxy")
              IN applyFactory(s1, s1.pc[definitionPath], clientObject)
    ELSE applyFactory(st, st.pc[CHOOSE q \in same : TRUE], clientObject)

\* Variant of getProxy that applies the new factory first and stores it after.
getProxy_ApplyBeforeStore(st, serviceName, definitionPath, clientObject, disk, fault) ==
  IF definitionPath \notin DOMAIN st.pc
    THEN LET f == createProxyFactory(st, serviceName, FALSE, definitionPath, disk, fault) IN
         IF ~f.ok THEN f
         ELSE LET a == applyFactory(f.st, f.val, clientObject)
                  s1 == Step([a.st EXCEPT !.pc = Put(@, definitionPath, f.val)],
                             "setProxy")
              IN Return(s1, a.val)
    ELSE applyFactory(st, st.pc[definitionPath], clientObject)

\* Variant of getProxy without the has() test: a new factory on every call.
getProxy_NoHasCheck(st, serviceName, definitionPath, clientObject, disk, fault) ==
  LET f == createProxyFactory(st, serviceName, FALSE, definitionPath, disk, fault) IN
  IF ~f.ok THEN f
  ELSE LET s1 == Step([f.st EXCEPT !.pc = Put(@, definitionPath, f.val)], "setProxy")
       IN applyFactory(s1, s1.pc[definitionPath], clientObject)

\* Variant of getProxy that drops the path's Definitions when the synthesis
\* throws, so that a retry reads the file again.
getProxy_EvictOnFailure(st, serviceName, definitionPath, clientObject, disk, fault) ==
  IF definitionPath \notin DOMAIN st.pc
    THEN LET f == createProxyFactory(st, serviceName, FALSE, definitionPath, disk, fault) IN
         IF ~f.ok
           THEN Throw([f.st EXCEPT !.dc = [q \in DOMAIN @ \ {definitionPath} |-> @[q]]],
                      f.error)
         ELSE LET s1 == Step([f.st EXCEPT !.pc = Put(@, definitionPath, f.val)],
                             "setProxy")
              IN applyFactory(s1, s1.pc[definitionPath], clientObject)
    ELSE applyFactory(st, st.pc[definitionPath], clientObject)

\* getProxy (main.js 93-105)
getProxy(st, serviceName, definitionPath, clientObject, disk, fault) ==
  IF definitionPath \notin DOMAIN st.pc
    THEN LET f == createProxyFactory(st, serviceName, FALSE, definitionPath, disk, fault) IN
         IF ~f.ok THEN f
         ELSE LET s1 == Step([f.st EXCEPT !.pc = Put(@, definitionPath, f.val)],
                             "setProxy")
              IN applyFactory(s1, s1.pc[definitionPath], clientObject)
    ELSE applyFactory(st, st.pc[definitionPath], clientObject)

\* ------------------------------------------------------------ the machine
Init ==
  /\ definitionsCache = <<>>
  /\ proxiesCache = <<>>
  /\ parsed = [p \in Paths |-> 0]
  /\ made = [p \in Paths |-> 0]
  /\ applied = 0
  /\ calls = 0
  /\ lastCall = NoCall
  /\ firstDefs = [p \in Paths |-> NoObj]
  /\ firstFactory = [p \in Paths |-> NoObj]
  /\ getProxyOk = 0
  /\ proxySets = [p \in Paths |-> 0]
  /\ threw = {}
  /\ compiledWith = {}
  /\ resolvedHere = {}
  /\ obs = {}

\* The failures the history keeps: a call for path that could not obtain its
\* Definitions (stage "defs"), a getProxy whose synthesis threw ("synth").
DefsErrors == {"resolve", "read", "parse"}
SynthErrors == {"generate", "load", "inject"}
Failure(op, path, r) ==
  IF ~r.ok /\ r.error \in DefsErrors THEN {<<path, "defs">>}
  ELSE IF ~r.ok /\ op = "getProxy" /\ r.error \in SynthErrors THEN {<<path, "synth">>}
  ELSE {}

\* A call can be made: the caller has taken the outcome of the one before.
Idle ==
  /\ lastCall = NoCall
  /\ calls < MaxCalls

\* What every call does to the program state and to the history, given the
\* result r of running the function on Heap.
Finish(op, name, ctx, path, disk, r, newObs) ==
  /\ calls' = calls + 1
  /\ definitionsCache' = r.st.dc
  /\ proxiesCache' = r.st.pc
  /\ parsed' = r.st.parsed
  /\ made' = r.st.made
  /\ applied' = r.st.applied
  /\ lastCall' = [op |-> op, serviceName |-> name, ctx |-> ctx, path |-> path,
                  disk |-> disk,
                  steps |-> r.st.steps, ok |-> r.ok, error |-> r.error,
                  result |-> r.val]
  /\ firstDefs' = IF firstDefs[path] = NoObj /\ path \in DOMAIN r.st.dc
                    THEN [firstDefs EXCEPT ![path] = r.st.dc[path]]
                    ELSE firstDefs
  /\ firstFactory' = IF firstFactory[path] = NoObj /\ path \in DOMAIN r.st.pc
                       THEN [firstFactory EXCEPT ![path] = r.st.pc[path]]
                       ELSE firstFactory
  /\ getProxyOk' = IF op = "getProxy" /\ r.ok THEN getProxyOk + 1 ELSE getProxyOk
  /\ proxySets' = [proxySets EXCEPT ![path] = @ + Count(r.st.steps, "setProxy")]
  /\ threw' = threw \cup Failure(op, path, r)
  /\ compiledWith' = r.st.compiled
  /\ resolvedHere' = r.st.resolved
  /\ obs' = obs \cup newObs

\* getDefinitions takes neither service name nor context, createProxyFactory
\* takes no context: the missing argument is "".
GetDefinitions(path, disk, nodeCached) ==
  /\ Idle
  /\ \E r \in {getDefinitions(Heap(nodeCached), path, disk)} :
       Finish("getDefinitions", "", "", path, disk, r,
              IF r.ok THEN {[ctx |-> "", path |-> path, kind |-> "defs", id |-> r.val.id]}
                      ELSE {})

GetProxy(name, path, ctx, disk, fault, nodeCached) ==
  /\ Idle
  /\ \E r \in {getProxy(Heap(nodeCached), name, path, ctx, disk, fault)} :
       Finish("getProxy", name, ctx, path, disk, r,
              IF r.ok THEN {[ctx |-> ctx, path |-> path, kind |-> "factory",
                             id |-> r.val.factory]}
                      ELSE {})

CreateProxyFactory(name, preserve, path, disk, fault, nodeCached) ==
  /\ Idle
  /\ \E r \in {createProxyFactory(Heap(nodeCached), name, preserve, path, disk, fault)} :
       Finish("createProxyFactory", name, "", path, disk, r, {})

\* The caller takes what the call returned, or catches what it threw, and
\* moves on: the program holds no reference to it any more.
Consume ==
  /\ lastCall # NoCall
  /\ lastCall' = NoCall
  /\ UNCHANGED <<definitionsCache, proxiesCache, parsed, made, applied, calls,
                 firstDefs, firstFactory, getProxyOk, proxySets, threw, compiledWith,
                 resolvedHere, obs>>

\* Every call is made with the file in any state, with the synthesis failing
\* anywhere or nowhere, and with or without an answer for its path in the
\* caches Node shares with the rest of the process.
Next ==
  \/ /\ Idle
     /\ \E p \in Paths, d \in FileStates, l \in BOOLEAN :
          GetDefinitions(p, d, l)
  \/ /\ Idle
     /\ \E n \in ServiceNames, p \in Paths, c \in Contexts, d \in FileStates,
           f \in Faults, l \in BOOLEAN :
          GetProxy(n, p, c, d, f, l)
  \/ /\ Idle
     /\ \E n \in ServiceNames, b \in BOOLEAN, p \in Paths, d \in FileStates,
           f \in Faults, l \in BOOLEAN :
          CreateProxyFactory(n, b, p, d, f, l)
  \/ Consume

Spec == Init /\ [][Next]_vars

\* ------------------------------------------------------------ properties
Returned(op) == lastCall # NoCall /\ lastCall.op = op /\ lastCall.ok
FactoryObs(p) == {o \in obs : o.path = p /\ o.kind = "factory"}
DefsObs(p) == {o \in obs : o.path = p /\ o.kind = "defs"}
\* A step in which one of the three exported functions is called.
IsCall == lastCall = NoCall /\ lastCall' # NoCall

\* C1: for every path P the parser produces a Definitions object exactly
\* once, on the first call that needs it, whichever of getDefinitions,
\* getProxy and createProxyFactory that call is; P is cached exactly when that
\* has happened, and every getDefinitions(P) returns that first object.
C1_ParseOncePerPath ==
  /\ \A p \in Paths :
       /\ parsed[p] <= 1
       /\ (p \in DOMAIN definitionsCache) <=> (parsed[p] = 1)
       /\ p \in DOMAIN definitionsCache => definitionsCache[p] = firstDefs[p]
  /\ Returned("getDefinitions") =>
       /\ lastCall.result = firstDefs[lastCall.path]
       /\ lastCall.result.id = <<"defs", lastCall.path, 1>>
       /\ Count(lastCall.steps, "parse") <= 1

\* C1 witness: P went through getProxy and createProxyFactory, then a
\* getDefinitions(P) returned without parsing.
C1_Witness ==
  /\ Returned("getDefinitions")
  /\ ~Has(lastCall.steps, "parse")
  /\ lastCall.path \in DOMAIN proxiesCache
  /\ made[lastCall.path] = 2
  /\ parsed[lastCall.path] = 1

\* C2: getProxy calls for one path P with different contexts cause one
\* proxiesCache.set for P, all apply the factory stored by it, and the object a
\* call returns is bound to the context passed to that very call.
C2_OneFactoryOwnContext ==
  /\ \A p \in Paths :
       /\ proxySets[p] <= 1
       /\ \A o1, o2 \in FactoryObs(p) : o1.id = o2.id
  /\ Returned("getProxy") =>
       /\ lastCall.result.ctx = lastCall.ctx
       /\ lastCall.result.factory = firstFactory[lastCall.path].id
       /\ proxiesCache[lastCall.path] = firstFactory[lastCall.path]

\* C2 witness: the second of two getProxy calls for P, made with the other
\* context, has returned from a cache hit.
C2_Witness ==
  /\ Returned("getProxy")
  /\ ~Has(lastCall.steps, "setProxy")
  /\ {o.ctx : o \in FactoryObs(lastCall.path)} = Contexts

\* C3: every getProxy call that returns has applied the factory exactly once,
\* so the number of applications equals the number of returned getProxy calls.
C3_ApplyPerCall ==
  /\ applied = getProxyOk
  /\ Returned("getProxy") =>
       /\ Count(lastCall.steps, "apply") = 1
       /\ lastCall.result.id = <<"proxy", applied>>

\* C3 witness: three getProxy calls have returned although at most two
\* different (path, context) pairs were used, so one context was used again.
C3_Witness ==
  /\ getProxyOk = 3
  /\ applied = 3
  /\ Cardinality({o \in obs : o.kind = "factory"}) <= 2
  /\ Returned("getProxy")
  /\ ~Has(lastCall.steps, "setProxy")

\* A call that threw because the definition could not be resolved, read or
\* parsed changes neither cache, leaves no entry for its path, returns nothing.
C4_FailureStep ==
  (IsCall /\ ~lastCall'.ok /\ lastCall'.error \in DefsErrors) =>
    /\ definitionsCache' = definitionsCache
    /\ proxiesCache' = proxiesCache
    /\ lastCall'.path \notin DOMAIN definitionsCache'
    /\ lastCall'.path \notin DOMAIN proxiesCache'
    /\ lastCall'.result = NoObj

\* A call for a path without cached Definitions loads again: it resolves, it
\* parses whenever the file can be read, and it caches whenever the file is
\* well-formed.  When there is no file the call throws, in the read when Node
\* still resolves the path from an earlier resolution, else in the
\* resolution; when the file cannot be read it throws in the read.
C4_RetryStep ==
  (IsCall /\ lastCall'.path \notin DOMAIN definitionsCache) =>
    /\ Count(lastCall'.steps, "resolve") = 1
    /\ lastCall'.disk = "absent" =>
         /\ ~lastCall'.ok
         /\ lastCall'.error \in {"resolve", "read"}
         /\ lastCall'.path \in resolvedHere => lastCall'.error = "read"
         /\ lastCall'.error = "read" => lastCall'.path \in resolvedHere'
         /\ ~Has(lastCall'.steps, "parse")
    /\ lastCall'.disk = "unreadable" =>
         /\ ~lastCall'.ok
         /\ lastCall'.error = "read"
         /\ lastCall'.steps = <<"resolve", "read">>
    /\ lastCall'.disk \in GoodContents \cup {"bad"} =>
         Count(lastCall'.steps, "parse") = 1
    /\ lastCall'.disk = "bad" => ~lastCall'.ok /\ lastCall'.error = "parse"
    /\ lastCall'.disk \in GoodContents =>
         /\ lastCall'.path \in DOMAIN definitionsCache'
         /\ lastCall'.ok \/ lastCall'.error \in SynthErrors

\* C4: when resolving, reading or parsing the definition fails in any of the
\* three operations, the error reaches the caller, both caches are unchanged
\* with no entry for the path, and the next call for the path loads again and
\* succeeds if the file has become well-formed.
C4_DefinitionFailureNotCached == [][C4_FailureStep /\ C4_RetryStep]_vars

\* C4 witness: a call for P threw at the definition stage and a later call for
\* P has parsed and returned.
C4_Witness ==
  /\ lastCall # NoCall
  /\ lastCall.ok
  /\ Has(lastCall.steps, "parse")
  /\ <<lastCall.path, "defs">> \in threw
  /\ lastCall.path \in DOMAIN definitionsCache

\* A getProxy whose generate, load or inject step threw leaves proxiesCache
\* unchanged without an entry for its path, and no factory has come out of it.
C5_FailureStep ==
  (IsCall /\ lastCall'.op = "getProxy" /\ ~lastCall'.ok
     /\ lastCall'.error \in SynthErrors) =>
    /\ proxiesCache' = proxiesCache
    /\ lastCall'.path \notin DOMAIN proxiesCache'
    /\ lastCall'.result = NoObj
    /\ made' = made

\* A getProxy for a path without cached factory whose Definitions are
\* available runs the synthesis, and caches its factory when it returns.
C5_RetryStep ==
  (IsCall /\ lastCall'.op = "getProxy"
     /\ lastCall'.path \notin DOMAIN proxiesCache
     /\ (lastCall'.path \in DOMAIN definitionsCache \/ lastCall'.disk \in GoodContents)) =>
    /\ Count(lastCall'.steps, "generate") = 1
    /\ lastCall'.ok \/ lastCall'.error \in SynthErrors
    /\ lastCall'.ok =>
         /\ Count(lastCall'.steps, "load") = 1
         /\ Count(lastCall'.steps, "inject") = 1
         /\ lastCall'.path \in DOMAIN proxiesCache'
         /\ proxiesCache'[lastCall'.path].injected = 1

\* C5: when generateProxy, loadCodeAsModule or inject fails during getProxy,
\* the error reaches the caller within the call, proxiesCache gets no entry for
\* the path, and a later getProxy for the path runs the synthesis again.
C5_SynthesisFailureNotCached == [][C5_FailureStep /\ C5_RetryStep]_vars

\* C5 witness: a getProxy for P threw in the synthesis and a later getProxy for
\* P has synthesized, cached and applied a factory.
C5_Witness ==
  /\ Returned("getProxy")
  /\ Has(lastCall.steps, "setProxy")
  /\ <<lastCall.path, "synth">> \in threw

\* A call for a path with cached Definitions does not resolve, read or parse,
\* whatever the file holds now, and getDefinitions returns the first parse
\* result; a getProxy for a path with cached factory only applies that factory.
C6_Step ==
  IsCall =>
    /\ lastCall'.path \in DOMAIN definitionsCache =>
         /\ ~Has(lastCall'.steps, "resolve")
         /\ ~Has(lastCall'.steps, "read")
         /\ ~Has(lastCall'.steps, "parse")
         /\ definitionsCache'[lastCall'.path] = firstDefs[lastCall'.path]
         /\ lastCall'.op = "getDefinitions" =>
              lastCall'.ok /\ lastCall'.result = firstDefs[lastCall'.path]
    /\ (lastCall'.path \in DOMAIN proxiesCache /\ lastCall'.op = "getProxy") =>
         /\ lastCall'.steps = <<"apply">>
         /\ lastCall'.ok
         /\ lastCall'.result.factory = firstFactory[lastCall'.path].id
         /\ proxiesCache'[lastCall'.path] = firstFactory[lastCall'.path]
         /\ proxiesCache'[lastCall'.path].code.defs = firstDefs[lastCall'.path].id

\* C6: once the Definitions of P are cached, every later getDefinitions(P)
\* returns the first parse result without reading or parsing again, also when
\* the file holds a different source by then; likewise getProxy keeps applying
\* the factory cached first.
C6_NoReparseAfterChange == [][C6_Step]_vars

\* C6 witness: getDefinitions(P) returned from the cache while the file held a
\* well-formed source other than the one the cached Definitions came from, and
\* a factory built from those Definitions is cached as well.
C6_Witness ==
  /\ Returned("getDefinitions")
  /\ ~Has(lastCall.steps, "parse")
  /\ lastCall.disk \in GoodContents
  /\ lastCall.disk # lastCall.result.content
  /\ lastCall.path \in DOMAIN proxiesCache

\* C7 as stated: over getProxy and createProxyFactory calls at most one
\* factory is ever synthesized for a path, and createProxyFactory for a path
\* with a cached factory returns the cached one.
C7_OneFactoryEver ==
  /\ \A p \in Paths : made[p] <= 1
  /\ (Returned("createProxyFactory") /\ lastCall.path \in DOMAIN proxiesCache) =>
       lastCall.result = proxiesCache[lastCall.path]

\* What a returning call does to the factory cache.  getProxy on a miss:
\* one new factory, stored under the path and applied; getProxy on a hit: no
\* new factory, the stored one applied.  createProxyFactory: always one new
\* factory, never the stored one, and proxiesCache untouched.
C7_Step ==
  (IsCall /\ lastCall'.ok) =>
    /\ (lastCall'.op = "getProxy" /\ lastCall'.path \notin DOMAIN proxiesCache) =>
         /\ made' = [made EXCEPT ![lastCall'.path] = @ + 1]
         /\ DOMAIN proxiesCache' = DOMAIN proxiesCache \cup {lastCall'.path}
         /\ proxiesCache'[lastCall'.path].id = <<"factory", lastCall'.path, made'[lastCall'.path]>>
         /\ lastCall'.result.factory = proxiesCache'[lastCall'.path].id
         /\ proxySets'[lastCall'.path] = 1
    /\ (lastCall'.op = "getProxy" /\ lastCall'.path \in DOMAIN proxiesCache) =>
         /\ made' = made
         /\ proxiesCache' = proxiesCache
         /\ ~Has(lastCall'.steps, "generate")
         /\ ~Has(lastCall'.steps, "load")
         /\ lastCall'.result.factory = proxiesCache[lastCall'.path].id
    /\ lastCall'.op = "createProxyFactory" =>
         /\ made' = [made EXCEPT ![lastCall'.path] = @ + 1]
         /\ proxiesCache' = proxiesCache
         /\ Count(lastCall'.steps, "generate") = 1
         /\ Count(lastCall'.steps, "load") = 1
         /\ lastCall'.result.id = <<"factory", lastCall'.path, made'[lastCall'.path]>>
         /\ lastCall'.path \in DOMAIN proxiesCache =>
              lastCall'.result.id # proxiesCache[lastCall'.path].id
    /\ lastCall'.op = "getDefinitions" => made' = made /\ proxiesCache' = proxiesCache

\* C7 (amended): proxiesCache holds one factory per path for getProxy: getProxy
\* synthesizes at most one factory for P, stores it under P on the miss and
\* applies the stored one on every later call; createProxyFactory neither
\* reads nor writes proxiesCache and synthesizes a new factory on every call.
C7_OneCachedFactoryPerPath == [][C7_Step]_vars

\* C7 witness: getProxy cached P's first factory, createProxyFactory made a
\* second one, and a later getProxy still applied the first.
C7_Witness ==
  /\ Returned("getProxy")
  /\ ~Has(lastCall.steps, "setProxy")
  /\ made[lastCall.path] = 2
  /\ proxySets[lastCall.path] = 1
  /\ lastCall.result.factory = <<"factory", lastCall.path, 1>>

\* C8 as stated: two definitionPath inputs that resolve to the same file share
\* one Definitions object, and the parser has run once for that file.
C8_MemoizedByResolvedPath ==
  \A p1, p2 \in Paths :
    (p1 # p2 /\ resolveTarget(p1) = resolveTarget(p2)) =>
      /\ parsed[p1] + parsed[p2] <= 1
      /\ (p1 \in DOMAIN definitionsCache /\ p2 \in DOMAIN definitionsCache) =>
           definitionsCache[p1] = definitionsCache[p2]

\* C9: the callers of getDefinitions(P) and getProxy(_, P, _), in whatever
\* order their calls run, all get the same Definitions object and the same
\* factory; one parse result and one cached factory exist for P, and that
\* factory was generated from those Definitions.
C9_SingleFlight ==
  \A p \in Paths :
    /\ parsed[p] <= 1
    /\ proxySets[p] <= 1
    /\ \A o \in DefsObs(p) :
         /\ p \in DOMAIN definitionsCache
         /\ o.id = definitionsCache[p].id
    /\ \A o \in FactoryObs(p) :
         /\ p \in DOMAIN proxiesCache
         /\ p \in DOMAIN definitionsCache
         /\ o.id = proxiesCache[p].id
         /\ proxiesCache[p].code.defs = definitionsCache[p].id
         /\ proxiesCache[p].code.defs = <<"defs", p, 1>>

\* C9 witness: for one path, a getDefinitions caller and getProxy callers with
\* every context have been served.
C9_Witness ==
  \E p \in Paths :
    /\ DefsObs(p) # {}
    /\ {o.ctx : o \in FactoryObs(p)} = Contexts

\* C10: an entry of definitionsCache or of proxiesCache, once present, is
\* neither removed nor replaced by any step.
C10_WriteOnce ==
  [][\A p \in Paths :
       /\ p \in DOMAIN definitionsCache =>
            p \in DOMAIN definitionsCache' /\ definitionsCache'[p] = definitionsCache[p]
       /\ p \in DOMAIN proxiesCache =>
            p \in DOMAIN proxiesCache' /\ proxiesCache'[p] = proxiesCache[p]]_vars

\* C10 witness: both caches hold P, and since then another path was cached
\* and a call has thrown.
C10_Witness ==
  \E p, q \in Paths :
    /\ p # q
    /\ p \in DOMAIN proxiesCache
    /\ p \in DOMAIN definitionsCache
    /\ q \in DOMAIN definitionsCache
    /\ threw # {}
    /\ calls = 3

\* C11: whatever a cache holds is finished: every value of definitionsCache
\* is a Definitions object parsed from a well-formed source of the file its
\* key resolves to, every value of proxiesCache is a factory that was
\* generated from the cached Definitions of its key, loaded and injected; no
\* entry stands for a build that threw.
C11_OnlyFinishedEntries ==
  /\ \A p \in DOMAIN definitionsCache :
       /\ definitionsCache[p] # NoObj
       /\ definitionsCache[p].id[1] = "defs"
       /\ definitionsCache[p].content \in GoodContents
       /\ definitionsCache[p].file = resolveTarget(p)
  /\ \A p \in DOMAIN proxiesCache :
       /\ proxiesCache[p] # NoObj
       /\ proxiesCache[p].id[1] = "factory"
       /\ proxiesCache[p].code # NoObj
       /\ p \in DOMAIN definitionsCache
       /\ proxiesCache[p].code.defs = definitionsCache[p].id
       /\ proxiesCache[p].filename = proxyFilename(p)
       /\ proxiesCache[p].injected = 1
  /\ (lastCall # NoCall /\ ~lastCall.ok) =>
       /\ lastCall.error \in DefsErrors => lastCall.path \notin DOMAIN definitionsCache
       /\ lastCall.op = "getProxy" => lastCall.path \notin DOMAIN proxiesCache

\* C11 witness: a getProxy for P has just thrown in its inject step, after
\* loading the Definitions of P, while another path has a cached factory.
C11_Witness ==
  /\ lastCall # NoCall
  /\ lastCall.op = "getProxy"
  /\ ~lastCall.ok
  /\ lastCall.error = "inject"
  /\ Has(lastCall.steps, "setDefinitions")
  /\ lastCall.path \in DOMAIN definitionsCache
  /\ \E q \in DOMAIN proxiesCache : q # lastCall.path

\* A getProxy for a path with a cached factory applies that factory whatever
\* service name it is given: generateProxy is not called and the cached
\* factory keeps the name it was generated for.
C12_HitStep ==
  (IsCall /\ lastCall'.op = "getProxy" /\ lastCall'.path \in DOMAIN proxiesCache) =>
    /\ lastCall'.ok
    /\ ~Has(lastCall'.steps, "generate")
    /\ lastCall'.result.factory = proxiesCache[lastCall'.path].id
    /\ proxiesCache' = proxiesCache

\* A getProxy for a path without cached factory generates one for the name it
\* is given, whatever factories other paths have, also for the same name.
C12_MissStep ==
  (IsCall /\ lastCall'.op = "getProxy" /\ lastCall'.ok
     /\ lastCall'.path \notin DOMAIN proxiesCache) =>
    /\ Count(lastCall'.steps, "generate") = 1
    /\ lastCall'.path \in DOMAIN proxiesCache'
    /\ proxiesCache'[lastCall'.path].code.serviceName = lastCall'.serviceName
    /\ lastCall'.result.factory = proxiesCache'[lastCall'.path].id
    /\ \A q \in DOMAIN proxiesCache :
         /\ proxiesCache'[q] = proxiesCache[q]
         /\ proxiesCache'[q].id # proxiesCache'[lastCall'.path].id

\* C12: a cached factory is identified by its definition path only.  getProxy
\* with another service name for the same path applies the factory generated
\* for the first name; getProxy with the same name for another path
\* synthesizes a separate factory.
C12_KeyedByPathOnly == [][C12_HitStep /\ C12_MissStep]_vars

\* C12 witness: two paths have factories generated for the same service name,
\* and a getProxy with a different name for one of them returned from a hit.
C12_Witness ==
  /\ Returned("getProxy")
  /\ ~Has(lastCall.steps, "generate")
  /\ lastCall.serviceName # proxiesCache[lastCall.path].code.serviceName
  /\ \E q \in DOMAIN proxiesCache :
       /\ q # lastCall.path
       /\ proxiesCache[q].code.serviceName = proxiesCache[lastCall.path].code.serviceName
       /\ proxiesCache[q].id # proxiesCache[lastCall.path].id

\* The steps of a getProxy miss, in order, when the Definitions have to be
\* loaded and when they are already cached.
MissPlanFull ==
  <<"resolve", "read", "parse", "setDefinitions",
    "generate", "load", "inject", "setProxy", "apply">>
MissPlanCached == <<"generate", "load", "inject", "setProxy", "apply">>

\* A getProxy miss runs its plan from the start: all of it when it returns, and
\* up to and including the step that threw otherwise.
C13_Step ==
  (IsCall /\ lastCall'.op = "getProxy" /\ lastCall'.path \notin DOMAIN proxiesCache) =>
    LET plan == IF lastCall'.path \in DOMAIN definitionsCache
                  THEN MissPlanCached ELSE MissPlanFull
    IN /\ lastCall'.ok => lastCall'.steps = plan
       /\ ~lastCall'.ok =>
            \E n \in 1..(Len(plan) - 2) :
              /\ lastCall'.steps = SubSeq(plan, 1, n)
              /\ plan[n] = lastCall'.error
       /\ Has(lastCall'.steps, "setDefinitions") <=>
            (lastCall'.path \in DOMAIN definitionsCache'
               /\ lastCall'.path \notin DOMAIN definitionsCache)
       /\ Has(lastCall'.steps, "setProxy") <=> lastCall'.path \in DOMAIN proxiesCache'
       /\ Has(lastCall'.steps, "apply") <=> lastCall'.result # NoObj

\* C13: on a getProxy miss the steps run in the order obtain Definitions
\* (parsing only if they are not cached), generate, load, inject, store in
\* proxiesCache, apply; a step runs only after all earlier ones succeeded.
C13_MissOrder == [][C13_Step]_vars

\* C13 witness: a getProxy miss for a path whose Definitions a getDefinitions
\* call had cached ran generate, load, inject, store and apply without parsing.
C13_Witness ==
  /\ Returned("getProxy")
  /\ lastCall.steps = MissPlanCached
  /\ DefsObs(lastCall.path) # {}
  /\ parsed[lastCall.path] = 1

\* map and map2 agree everywhere except possibly at key k.
SameExceptAt(map, map2, k) ==
  \A q \in Paths \ {k} :
    /\ (q \in DOMAIN map) <=> (q \in DOMAIN map2)
    /\ q \in DOMAIN map => map2[q] = map[q]

\* What a getDefinitions or getProxy call for a path may change.
C14_Step ==
  IsCall =>
    /\ lastCall'.op = "getDefinitions" =>
         /\ proxiesCache' = proxiesCache
         /\ made' = made
         /\ applied' = applied
         /\ compiledWith' = compiledWith
         /\ SameExceptAt(definitionsCache, definitionsCache', lastCall'.path)
    /\ lastCall'.op = "getProxy" =>
         /\ SameExceptAt(definitionsCache, definitionsCache', lastCall'.path)
         /\ SameExceptAt(proxiesCache, proxiesCache', lastCall'.path)
    /\ (lastCall'.op = "getProxy" /\ lastCall'.path \in DOMAIN proxiesCache) =>
         /\ definitionsCache' = definitionsCache
         /\ proxiesCache' = proxiesCache
         /\ parsed' = parsed
         /\ made' = made
         /\ compiledWith' = compiledWith
         /\ lastCall'.steps = <<"apply">>

\* C14: getDefinitions(P) never changes proxiesCache and changes
\* definitionsCache at most at P; getProxy(_, P, _) changes each cache at most
\* at P; a getProxy that hits proxiesCache changes neither cache and runs none
\* of parser, generateProxy, loadCodeAsModule and inject.
C14_Frame == [][C14_Step]_vars

\* C14 witness: a getProxy hit for P, made while another path had its
\* Definitions cached through getDefinitions and a third spelling had not.
C14_Witness ==
  /\ Returned("getProxy")
  /\ lastCall.steps = <<"apply">>
  /\ \E q \in DOMAIN definitionsCache :
       /\ q # lastCall.path
       /\ q \notin DOMAIN proxiesCache
       /\ DefsObs(q) # {}
  /\ DOMAIN definitionsCache # Paths

\* C15: every path with an entry in proxiesCache has an entry in
\* definitionsCache; more generally a path for which a factory was ever made
\* has its Definitions cached.
C15_FactoryImpliesDefinitions ==
  /\ DOMAIN proxiesCache \subseteq DOMAIN definitionsCache
  /\ \A p \in Paths : made[p] > 0 => p \in DOMAIN definitionsCache

\* C15 witness: one path has both entries, another has Definitions only, and
\* createProxyFactory made a factory for a path that has no cached factory.
C15_Witness ==
  /\ \E p \in DOMAIN proxiesCache : p \in DOMAIN definitionsCache
  /\ \E q \in DOMAIN definitionsCache : q \notin DOMAIN proxiesCache /\ made[q] = 0
  /\ \E q \in DOMAIN definitionsCache : q \notin DOMAIN proxiesCache /\ made[q] > 0

\* In the step log s, every occurrence of step a comes before every
\* occurrence of step b.
Before(s, a, b) ==
  \A i, j \in DOMAIN s : (s[i] = a /\ s[j] = b) => i < j

\* C16: the dependencies are injected into a factory exactly once, inside
\* createProxyFactory and as its last step, before the factory is returned,
\* stored or applied; a getProxy hit applies an injected factory and does not
\* inject again.
C16_InjectOnceAtCreation ==
  /\ \A p \in DOMAIN proxiesCache : proxiesCache[p].injected = 1
  /\ Returned("createProxyFactory") =>
       /\ lastCall.result.injected = 1
       /\ Count(lastCall.steps, "inject") = 1
       /\ lastCall.steps[Len(lastCall.steps)] = "inject"
       /\ Before(lastCall.steps, "load", "inject")
  /\ Returned("getProxy") =>
       /\ Has(lastCall.steps, "setProxy") <=> Has(lastCall.steps, "inject")
       /\ Count(lastCall.steps, "inject") <= 1
       /\ Before(lastCall.steps, "load", "inject")
       /\ Before(lastCall.steps, "inject", "setProxy")
       /\ Before(lastCall.steps, "inject", "apply")
       /\ lastCall.result.factory = proxiesCache[lastCall.path].id
       /\ proxiesCache[lastCall.path].injected = 1

\* C16 witness: a getProxy hit, the second getProxy to return, has applied the
\* cached factory, which was injected once, without injecting.
C16_Witness ==
  /\ Returned("getProxy")
  /\ lastCall.steps = <<"apply">>
  /\ proxiesCache[lastCall.path].injected = 1
  /\ getProxyOk >= 2
  /\ proxySets[lastCall.path] = 1

\* C17: every _compile, on every call and also when it throws, runs in a
\* module whose lookup paths are the empty list; the modules that come out of
\* it keep the empty list, and each is a new module, not one already cached.
C17_EmptyLookupPaths ==
  /\ compiledWith \subseteq {<<>>}
  /\ (lastCall # NoCall /\ Has(lastCall.steps, "load")) => compiledWith = {<<>>}
  /\ \A p \in DOMAIN proxiesCache : proxiesCache[p].paths = <<>>
  /\ Returned("createProxyFactory") =>
       /\ lastCall.result.paths = <<>>
       /\ lastCall.result.filename = proxyFilename(lastCall.path)
       /\ lastCall.path \in DOMAIN proxiesCache =>
            lastCall.result.id # proxiesCache[lastCall.path].id

\* C17 witness: a load has just thrown, after getProxy had loaded and cached one
\* module and createProxyFactory had loaded another.
C17_Witness ==
  /\ lastCall # NoCall
  /\ ~lastCall.ok
  /\ lastCall.error = "load"
  /\ compiledWith = {<<>>}
  /\ proxiesCache # <<>>
  /\ \E q \in Paths : made[q] > proxySets[q]

TypeOK ==
  /\ DOMAIN definitionsCache \subseteq Paths
  /\ DOMAIN proxiesCache \subseteq Paths
  /\ calls \in 0..MaxCalls
  /\ applied \in 0..MaxCalls
  /\ resolvedHere \subseteq Paths
  /\ DOMAIN definitionsCache \subseteq resolvedHere
====
